---- MODULE Spec2Model ----
(***************************************************************************)
(* Model of client-v2/path.cpp: read_path (serial ingestion of a path),    *)
(* is_coord_visible (viewport test) and draw_path (segment rendering).     *)
(* Integer widths follow the AVR target: uint8_t, uint16_t wrap.           *)
(***************************************************************************)
EXTENDS Integers, Sequences, FiniteSets, TLC

VARIABLES
    pc,                     \* position of the single thread of control
    serial_in,              \* lines waiting on the serial port
    declared,               \* the count N the sender wrote on the first line
    avail_mem,              \* value AVAIL_MEM has when read_path samples it
    path_errno,             \* int16_t path_errno (global)
    prev_errno,             \* path_errno on entry to the current read_path
    length_p,               \* *length_p
    path_p,                 \* *path_p: 0 is the null pointer, 1 the block
    max_path_size,          \* uint16_t local of read_path
    field_value,            \* int32_t local of read_path
    tmp_length,             \* uint8_t local of read_path
    tmp_path,               \* offset of the tmp_path cursor into the block
    heap,                   \* the coord_t block malloc returned
    heap_live,              \* a block allocated by read_path is live
    beyond,                 \* the coord_t-sized memory just past the block
    malloc_calls,           \* malloc calls made by the current read_path
    lines_read,             \* serial_readline calls of the current read_path
    ret,                    \* return value of the last read_path
    current_map_num, screen_map_x, screen_map_y,
    display_window_width, display_window_height,
    dp_length,              \* uint16_t length parameter of draw_path
    dp_i,                   \* uint8_t i of the loop draw_path is in
    dp_prints,              \* passes of the printing loop so far
    dp_iters,               \* executions of the drawing loop body so far
    draws,                  \* tft.drawLine calls of the current draw_path
    vis_point,              \* argument of the last is_coord_visible call
    vis_result              \* its uint8_t result; -1 when none was made

rpvars == <<serial_in, declared, avail_mem, path_errno, prev_errno, length_p,
            path_p, max_path_size, field_value, tmp_length, tmp_path, heap,
            heap_live, beyond, malloc_calls, lines_read, ret>>
viewvars == <<current_map_num, screen_map_x, screen_map_y,
              display_window_width, display_window_height>>
dpvars == <<dp_length, dp_i, dp_prints, dp_iters, draws>>
visvars == <<vis_point, vis_result>>
vars == <<pc, rpvars, viewvars, dpvars, visvars>>

----------------------------------------------------------------------------
(* Bounds of the model *)

\* declared counts -1..MaxSmallLen are enumerated beside the wide ones
MaxSmallLen == 3
\* passes of either loop of draw_path followed before the model stops
MaxDrawIters == 258

----------------------------------------------------------------------------
(* Program constants *)

line_size == 40
field_size == 20
Reserve == 256
\* coord_t holds two int32_t fields (lat, lon)
SizeofCoord == 8

U8(x) == x % 256
U16(x) == x % 65536

Coord(la, lo) == [lat |-> la, lon |-> lo]

----------------------------------------------------------------------------
(* The serial transport: text lines, fields, integers *)

Digits == <<"0", "1", "2", "3", "4", "5", "6", "7", "8", "9">>
IsDigit(c) == \E d \in 1..10 : Digits[d] = c
DigitVal(c) == (CHOOSE d \in 1..10 : Digits[d] = c) - 1

RECURSIVE NatToText(_)
NatToText(n) ==
    IF n < 10 THEN <<Digits[n + 1]>>
    ELSE NatToText(n \div 10) \o <<Digits[(n % 10) + 1]>>

\* what the sender prints for an integer
IntToText(n) == IF n < 0 THEN <<"-">> \o NatToText(-n) ELSE NatToText(n)

\* serial_readline(line, line_size): at most line_size-1 characters are kept
serial_readline(text) ==
    IF Len(text) > line_size - 1 THEN SubSeq(text, 1, line_size - 1) ELSE text

\* string_read_field(str, start, field, field_size, sep): copies characters
\* from start up to the separator, the end of str or a full field buffer;
\* returns the field and the index at which the next field starts.
RECURSIVE ReadField(_, _, _, _)
ReadField(str, idx, field, sep) ==
    IF idx > Len(str) THEN [field |-> field, next |-> idx + 1]
    ELSE IF Len(field) = field_size - 1 THEN [field |-> field, next |-> idx]
    ELSE IF str[idx] = sep THEN [field |-> field, next |-> idx + 1]
    ELSE ReadField(str, idx + 1, Append(field, str[idx]), sep)

string_read_field(str, idx, sep) == ReadField(str, idx, <<>>, sep)

\* string_get_int(field): optional sign, then the leading decimal digits
RECURSIVE DigitsValue(_, _, _)
DigitsValue(s, k, acc) ==
    IF k > Len(s) \/ ~IsDigit(s[k]) THEN acc
    ELSE DigitsValue(s, k + 1, 10 * acc + DigitVal(s[k]))

string_get_int(s) ==
    IF Len(s) > 0 /\ s[1] = "-" THEN 0 - DigitsValue(s, 2, 0)
    ELSE DigitsValue(s, 1, 0)

----------------------------------------------------------------------------
(* What the sender puts on the line *)

Pts == <<Coord(10, 20), Coord(30, 40), Coord(-5, 7)>>

\* the k-th coordinate (k >= 1) of a message
SentCoord(k) == Pts[((k - 1) % Len(Pts)) + 1]

CoordLine(p) == IntToText(p.lat) \o <<" ">> \o IntToText(p.lon)

\* counts the sender may declare
DeclaredLengths == (-1 .. MaxSmallLen) \cup {256, 257, 8173}

\* number of coordinate lines that follow the count line
LinesSent(N) == IF N >= 0 /\ N <= 300 THEN N ELSE 0

\* the message: count line, the coordinate lines, then the start of whatever
\* the sender transmits next
Message(N) ==
    <<IntToText(N)>> \o [k \in 1..LinesSent(N) |-> CoordLine(SentCoord(k))]
                     \o <<IntToText(7)>>

\* the messages of all declared counts
Messages == [N \in DeclaredLengths |-> Message(N)]

\* values AVAIL_MEM may have at the call
AvailMems == {100, 256, 272, 2656}

\* what uninitialised memory may hold
Garbage == {Coord(30, 40), Coord(-1, -1)}

----------------------------------------------------------------------------
(* Map layer: pixel conversion and viewport state (map.h) *)

MapWest == [m \in {0, 1} |-> IF m = 0 THEN 0 ELSE -10]
MapNorth == [m \in {0, 1} |-> IF m = 0 THEN 100 ELSE 50]

longitude_to_x(m, lon) == lon - MapWest[m]
latitude_to_y(m, lat) == MapNorth[m] - lat

View(m, x, y, w, h) == [map |-> m, x |-> x, y |-> y, w |-> w, h |-> h]

Viewports == { View(0, 10, 60, 40, 40),   \* Pts[1], Pts[2] inside
               View(0, 20, 90, 40, 40),   \* Pts[1] exactly on the origin
               View(0, 19, 89, 40, 40),   \* Pts[1] at origin + (1,1)
               View(0, 19, 89, 1, 1),     \* one-pixel window
               View(0, 0, 50, 40, 41),    \* Pts[2] on the right edge
               View(0, 10, 60, 40, 30),   \* Pts[1] on the bottom edge
               View(1, 20, 10, 40, 40) }  \* second map

----------------------------------------------------------------------------
(* read_path *)

Idle == pc \in {"idle", "rp_done", "dp_done"}

\* uint16_t max_path_size = (AVAIL_MEM - 256) / sizeof(coord_t);
\* sizeof yields size_t, so the subtraction and division are unsigned 16-bit
MaxPathSize(avail) == U16(U16(avail - Reserve) \div SizeofCoord)

\* the check with the test for a negative count left out
InvalidLength_NoNeg(fv, mps) == mps < fv

\* the consistency check: field_value < 0 || max_path_size < field_value
InvalidLength(fv, mps) == fv < 0 \/ mps < fv

\* the value stored through length_p once the check has passed
StoredLength(fv) == U8(fv)

\* entry without the reset of the error code
EntryErrno_Stale(old) == old

\* path_errno as read_path leaves it on entry
EntryErrno(old) == 0

\* Entry: outputs cleared, error code reset, wait for Serial.available(),
\* ceiling computed.  The sender's message and the free memory are inputs.
rp_Enter ==
    /\ Idle
    /\ \E N \in DeclaredLengths, am \in AvailMems :
          /\ declared' = N
          /\ serial_in' = Messages[N]
          /\ avail_mem' = am
          /\ max_path_size' = MaxPathSize(am)
    /\ prev_errno' = path_errno
    /\ length_p' = 0
    /\ path_p' = 0
    /\ path_errno' = EntryErrno(path_errno)
    /\ heap' = <<>>
    /\ heap_live' = FALSE
    /\ beyond' = Coord(-1, -1)
    /\ malloc_calls' = 0
    /\ lines_read' = 0
    /\ ret' = 0
    /\ field_value' = 0
    /\ tmp_length' = 0
    /\ tmp_path' = 0
    /\ dp_length' = 0 /\ dp_i' = 0 /\ dp_prints' = 0 /\ dp_iters' = 0
    /\ draws' = <<>>
    /\ vis_point' = Coord(0, 0) /\ vis_result' = -1
    /\ pc' = "rp_count"
    /\ UNCHANGED viewvars

\* the count line is read and its first field parsed
rp_ReadCount ==
    /\ pc = "rp_count"
    /\ Len(serial_in) > 0
    /\ LET line == serial_readline(Head(serial_in))
           f == string_read_field(line, 1, " ")
       IN field_value' = string_get_int(f.field)
    /\ serial_in' = Tail(serial_in)
    /\ lines_read' = lines_read + 1
    /\ pc' = "rp_check"
    /\ UNCHANGED <<declared, avail_mem, path_errno, prev_errno, length_p,
                   path_p, max_path_size, tmp_length, tmp_path, heap,
                   heap_live, beyond, malloc_calls, ret>>
    /\ UNCHANGED <<viewvars, dpvars, visvars>>

\* consistency check, then tmp_length and *length_p are set
rp_Check ==
    /\ pc = "rp_check"
    /\ IF InvalidLength(field_value, max_path_size)
       THEN /\ path_errno' = 1
            /\ ret' = 0
            /\ pc' = "rp_done"
            /\ UNCHANGED <<tmp_length, length_p>>
       ELSE /\ tmp_length' = U8(field_value)
            /\ length_p' = StoredLength(field_value)
            /\ pc' = "rp_alloc"
            /\ UNCHANGED <<path_errno, ret>>
    /\ UNCHANGED <<serial_in, declared, avail_mem, prev_errno, path_p,
                   max_path_size, field_value, tmp_path, heap, heap_live,
                   beyond, malloc_calls, lines_read>>
    /\ UNCHANGED <<viewvars, dpvars, visvars>>

\* malloc(tmp_length * sizeof(coord_t)): the allocator may refuse any request;
\* a granted block and the memory after it hold arbitrary data
rp_Alloc ==
    /\ pc = "rp_alloc"
    /\ malloc_calls' = malloc_calls + 1
    /\ \/ /\ path_errno' = 2
          /\ ret' = 0
          /\ pc' = "rp_done"
          /\ UNCHANGED <<path_p, heap, heap_live, beyond, tmp_path>>
       \/ \E g \in Garbage :
             /\ heap' = [k \in 1..tmp_length |-> g]
             /\ beyond' = g
             /\ heap_live' = TRUE
             /\ path_p' = 1
             /\ tmp_path' = 0
             /\ pc' = "rp_loop"
             /\ UNCHANGED <<path_errno, ret>>
    /\ UNCHANGED <<serial_in, declared, avail_mem, prev_errno, length_p,
                   max_path_size, field_value, tmp_length, lines_read>>
    /\ UNCHANGED <<viewvars, dpvars, visvars>>

\* one pass of while ( tmp_length > 0 ): a line is read, lat and lon parsed
\* into *tmp_path, the counter decremented and the cursor advanced
rp_ReadCoord ==
    /\ pc = "rp_loop"
    /\ tmp_length > 0
    /\ Len(serial_in) > 0
    /\ LET line == serial_readline(Head(serial_in))
           f1 == string_read_field(line, 1, " ")
           f2 == string_read_field(line, f1.next, " ")
       IN heap' = [heap EXCEPT ![tmp_path + 1] =
                      Coord(string_get_int(f1.field), string_get_int(f2.field))]
    /\ serial_in' = Tail(serial_in)
    /\ lines_read' = lines_read + 1
    /\ tmp_length' = tmp_length - 1
    /\ tmp_path' = tmp_path + 1
    /\ UNCHANGED <<pc, declared, avail_mem, path_errno, prev_errno, length_p,
                   path_p, max_path_size, field_value, heap_live, beyond,
                   malloc_calls, ret>>
    /\ UNCHANGED <<viewvars, dpvars, visvars>>

\* the loop ends: return 1
rp_Return ==
    /\ pc = "rp_loop"
    /\ tmp_length = 0
    /\ ret' = 1
    /\ pc' = "rp_done"
    /\ UNCHANGED <<serial_in, declared, avail_mem, path_errno, prev_errno,
                   length_p, path_p, max_path_size, field_value, tmp_length,
                   tmp_path, heap, heap_live, beyond, malloc_calls,
                   lines_read>>
    /\ UNCHANGED <<viewvars, dpvars, visvars>>

----------------------------------------------------------------------------
(* is_coord_visible *)

\* uint16_t point_map_x / point_map_y
point_map_x(point) == U16(longitude_to_x(current_map_num, point.lon))
point_map_y(point) == U16(latitude_to_y(current_map_num, point.lat))

\* the right-hand bound taken inclusive
is_coord_visible_Incl(point) ==
    /\ screen_map_x < point_map_x(point)
    /\ point_map_x(point) <= screen_map_x + display_window_width
    /\ screen_map_y < point_map_y(point)
    /\ point_map_y(point) < screen_map_y + display_window_height

is_coord_visible(point) ==
    /\ screen_map_x < point_map_x(point)
    /\ point_map_x(point) < screen_map_x + display_window_width
    /\ screen_map_y < point_map_y(point)
    /\ point_map_y(point) < screen_map_y + display_window_height

\* a client asks whether a point is visible
CallIsCoordVisible ==
    /\ Idle
    /\ \E p \in {Pts[k] : k \in 1..Len(Pts)} \cup Garbage :
          /\ vis_point' = p
          /\ vis_result' = IF is_coord_visible(p) THEN 1 ELSE 0
    /\ UNCHANGED <<pc, rpvars, viewvars, dpvars>>

\* the map layer scrolls or switches the map between calls
SetViewport ==
    /\ Idle
    /\ \E v \in Viewports :
          /\ current_map_num' = v.map
          /\ screen_map_x' = v.x
          /\ screen_map_y' = v.y
          /\ display_window_width' = v.w
          /\ display_window_height' = v.h
    /\ vis_point' = Coord(0, 0) /\ vis_result' = -1
    /\ UNCHANGED <<pc, rpvars, dpvars>>

----------------------------------------------------------------------------
(* draw_path *)

\* path[k]: a stored coordinate, or whatever lies after the block
PathAt(k) == IF k < Len(heap) THEN heap[k + 1] ELSE beyond

\* the drawLine arguments for the pair (a, b)
Segment(a, b) ==
    [x0 |-> longitude_to_x(current_map_num, a.lon) - screen_map_x,
     y0 |-> latitude_to_y(current_map_num, a.lat) - screen_map_y,
     x1 |-> longitude_to_x(current_map_num, b.lon) - screen_map_x,
     y1 |-> latitude_to_y(current_map_num, b.lat) - screen_map_y]

\* the uint8_t loop counter after i++
NextIndex(i) == U8(i + 1)

\* the loop condition i < length
LoopContinues(i, length) == i < length

\* the segment test of the loop body
BothVisible(i) == is_coord_visible(PathAt(i)) /\ is_coord_visible(PathAt(i + 1))

\* where draw_path starts looping: the printing loop has an empty body and
\* no side effect, so the compiler may keep it or drop it
FirstLoop == {"dp_print", "dp_loop"}

\* the client draws the path read_path just returned
dp_Enter ==
    /\ pc = "rp_done"
    /\ ret = 1
    /\ dp_length' = length_p
    /\ dp_i' = 0
    /\ dp_prints' = 0
    /\ dp_iters' = 0
    /\ draws' = <<>>
    /\ vis_point' = Coord(0, 0) /\ vis_result' = -1
    /\ pc' \in FirstLoop
    /\ UNCHANGED <<rpvars, viewvars>>

\* at start-up a client draws a path it assembled itself, longer than a byte
\* can count
dp_EnterWide ==
    /\ pc = "idle"
    /\ \E n \in {256} :
          /\ dp_length' = n
          /\ heap' = [k \in 1..n |-> SentCoord(k)]
          /\ length_p' = n
    /\ \E g \in Garbage : beyond' = g
    /\ heap_live' = TRUE
    /\ path_p' = 1
    /\ serial_in' = <<>>
    /\ declared' = 0
    /\ ret' = 0
    /\ malloc_calls' = 0
    /\ lines_read' = 0
    /\ tmp_length' = 0
    /\ tmp_path' = 0
    /\ field_value' = 0
    /\ prev_errno' = path_errno
    /\ dp_i' = 0
    /\ dp_prints' = 0
    /\ dp_iters' = 0
    /\ draws' = <<>>
    /\ vis_point' = Coord(0, 0) /\ vis_result' = -1
    /\ pc' \in FirstLoop
    /\ UNCHANGED <<avail_mem, path_errno, max_path_size, viewvars>>

\* one pass of the printing loop (its body is compiled out), then i++
dp_PrintStep ==
    /\ pc = "dp_print"
    /\ LoopContinues(dp_i, dp_length)
    /\ dp_prints < MaxDrawIters
    /\ dp_i' = NextIndex(dp_i)
    /\ dp_prints' = dp_prints + 1
    /\ UNCHANGED <<pc, dp_length, dp_iters, draws, rpvars, viewvars, visvars>>

\* the printing loop ends; path[0] is converted and the drawing loop starts
\* with its own i = 0
dp_PrintExit ==
    /\ pc = "dp_print"
    /\ ~LoopContinues(dp_i, dp_length)
    /\ dp_i' = 0
    /\ pc' = "dp_loop"
    /\ UNCHANGED <<dp_length, dp_prints, dp_iters, draws, rpvars, viewvars,
                   visvars>>

\* one execution of the body of the drawing loop, then i++
dp_Step ==
    /\ pc = "dp_loop"
    /\ LoopContinues(dp_i, dp_length)
    /\ dp_iters < MaxDrawIters
    /\ draws' = IF BothVisible(dp_i)
                THEN Append(draws, Segment(PathAt(dp_i), PathAt(dp_i + 1)))
                ELSE draws
    /\ dp_i' = NextIndex(dp_i)
    /\ dp_iters' = dp_iters + 1
    /\ UNCHANGED <<pc, dp_length, dp_prints, rpvars, viewvars, visvars>>

\* the loop condition fails: draw_path returns
dp_Return ==
    /\ pc = "dp_loop"
    /\ ~LoopContinues(dp_i, dp_length)
    /\ pc' = "dp_done"
    /\ UNCHANGED <<rpvars, viewvars, dpvars, visvars>>

----------------------------------------------------------------------------
(* The program *)

Init ==
    /\ pc = "idle"
    /\ serial_in = <<>>
    /\ declared = 0
    /\ avail_mem = 2656
    /\ path_errno = 0
    /\ prev_errno = 0
    /\ length_p = 0
    /\ path_p = 0
    /\ max_path_size = 0
    /\ field_value = 0
    /\ tmp_length = 0
    /\ tmp_path = 0
    /\ heap = <<>>
    /\ heap_live = FALSE
    /\ beyond = Coord(-1, -1)
    /\ malloc_calls = 0
    /\ lines_read = 0
    /\ ret = 0
    /\ \E v \in Viewports :
          /\ current_map_num = v.map
          /\ screen_map_x = v.x
          /\ screen_map_y = v.y
          /\ display_window_width = v.w
          /\ display_window_height = v.h
    /\ dp_length = 0
    /\ dp_i = 0
    /\ dp_prints = 0
    /\ dp_iters = 0
    /\ draws = <<>>
    /\ vis_point = Coord(0, 0)
    /\ vis_result = -1

Next ==
    \/ rp_Enter
    \/ rp_ReadCount
    \/ rp_Check
    \/ rp_Alloc
    \/ rp_ReadCoord
    \/ rp_Return
    \/ CallIsCoordVisible
    \/ SetViewport
    \/ dp_Enter
    \/ dp_EnterWide
    \/ dp_PrintStep
    \/ dp_PrintExit
    \/ dp_Step
    \/ dp_Return

Spec == Init /\ [][Next]_vars

TypeOK ==
    /\ pc \in {"idle", "rp_count", "rp_check", "rp_alloc", "rp_loop",
               "rp_done", "dp_print", "dp_loop", "dp_done"}
    /\ path_errno \in {0, 1, 2}
    /\ tmp_length \in 0..255
    /\ max_path_size \in 0..65535
    /\ dp_i \in 0..255

----------------------------------------------------------------------------
(* Properties *)

\* a read_path call has returned (and possibly its path has been drawn)
RpCompleted == pc \in {"rp_done", "dp_done"}

\* the coordinates the sender transmitted after a count of N
SentPath(N) == [k \in 1..N |-> SentCoord(k)]

\* C1: for every declared length N with 0 <= N <= max_path_size, when the N
\* coordinate lines follow and allocation succeeds, read_path returns 1, the
\* length reported through length_p equals N and path_errno is 0.
C1_LengthEqualsDeclared ==
    (RpCompleted /\ declared >= 0 /\ declared <= max_path_size /\ heap_live)
        => (ret = 1 /\ length_p = declared /\ path_errno = 0)

\* C2: for every declared length N with N < 0 or N > max_path_size, read_path
\* fails with reported length 0, null path pointer and path_errno 1; no
\* allocation is attempted and only the count line is consumed.
C2_InvalidLengthRejected ==
    (/\ pc \in {"rp_check", "rp_alloc", "rp_loop", "rp_done"}
     /\ (declared < 0 \/ declared > max_path_size))
        => /\ malloc_calls = 0
           /\ ~heap_live
           /\ lines_read = 1
           /\ length_p = 0
           /\ path_p = 0
           /\ pc = "rp_done" => (ret = 0 /\ path_errno = 1)

C2_Witness ==
    /\ pc = "rp_done"
    /\ declared > max_path_size
    /\ max_path_size > 0
    /\ ret = 0
    /\ path_errno = 1
    /\ lines_read = 1

\* C3: when the declared length passes validation but the allocator refuses,
\* read_path fails with path_errno 2, null path pointer, reported length 0 and
\* no coordinate line consumed.
C3_AllocFailureLengthZero ==
    (pc = "rp_done" /\ malloc_calls = 1 /\ ~heap_live)
        => /\ ret = 0
           /\ path_errno = 2
           /\ path_p = 0
           /\ length_p = 0
           /\ lines_read = 1

\* C4: with available memory below the 256-byte reserve every declared N > 0
\* fails with path_errno 1 before any allocation attempt, and the reported
\* length never exceeds floor((available_memory - reserve) / sizeof(coord_t)).
C4_CeilingBelowReserve ==
    RpCompleted
        => /\ (avail_mem < Reserve /\ declared > 0)
                 => (ret = 0 /\ path_errno = 1 /\ malloc_calls = 0)
           /\ (length_p > 0)
                 => length_p <= (avail_mem - Reserve) \div SizeofCoord

\* C5: on the success path with declared length N, read_path consumes exactly
\* N+1 lines and stores the k-th coordinate line in slot k-1, so the returned
\* array has exactly N populated entries.
C5_ConsumesAllLines ==
    (RpCompleted /\ ret = 1)
        => /\ lines_read = declared + 1
           /\ heap = SentPath(declared)

\* C6: is_coord_visible(point) returns true exactly when the point's map-pixel
\* coordinates lie strictly inside the viewport on all four sides: a point on
\* the viewport origin is not visible, a point at origin + (1,1) inside a
\* viewport wider and taller than 1 is visible; the call changes no viewport
\* or map state.
C6_VisibleIffStrictlyInside ==
    /\ [](vis_result # -1 =>
            LET px == point_map_x(vis_point)
                py == point_map_y(vis_point)
            IN /\ vis_result \in {0, 1}
               /\ (vis_result = 1) <=>
                     (/\ px > screen_map_x
                      /\ px - screen_map_x < display_window_width
                      /\ py > screen_map_y
                      /\ py - screen_map_y < display_window_height)
               /\ (px = screen_map_x /\ py = screen_map_y) => vis_result = 0
               /\ (/\ px = screen_map_x + 1 /\ py = screen_map_y + 1
                   /\ display_window_width > 1 /\ display_window_height > 1)
                     => vis_result = 1)
    /\ [][vis_result' # -1 => UNCHANGED viewvars]_vars

C6_Witness ==
    /\ vis_result = 1
    /\ point_map_x(vis_point) = screen_map_x + 1
    /\ point_map_y(vis_point) = screen_map_y + 1

\* the draw calls for the pairs of consecutive stored coordinates from slot i
\* (1-based) on
RECURSIVE StoredPairDraws(_)
StoredPairDraws(i) ==
    IF i + 1 > Len(heap) THEN <<>>
    ELSE (IF is_coord_visible(heap[i]) /\ is_coord_visible(heap[i + 1])
          THEN <<Segment(heap[i], heap[i + 1])>>
          ELSE <<>>) \o StoredPairDraws(i + 1)

\* C7: draw_path issues one drawLine call per pair of consecutive stored
\* coordinates whose endpoints are both visible, with viewport-relative
\* endpoints, and none for any other pair; a length-2 path with both points
\* visible yields exactly one call, with neither visible none.
C7_OneDrawPerVisibleStoredPair ==
    (pc = "dp_done" /\ dp_length = Len(heap))
        => draws = StoredPairDraws(1)

\* C8: draw_path on a path of length 0 or 1 issues no drawLine call, whatever
\* the viewport and whatever lies in memory after the last stored coordinate.
C8_ShortPathDrawsNothing ==
    (pc = "dp_done" /\ dp_length \in {0, 1}) => draws = <<>>

\* C9: draw_path terminates for every 16-bit length, visiting each segment
\* index at most once and issuing at most length draw calls.
C9_EachIndexVisitedOnce ==
    (pc \in {"dp_print", "dp_loop", "dp_done"})
        => /\ dp_prints <= dp_length
           /\ dp_iters <= dp_length
           /\ Len(draws) <= dp_length

\* C10: after every completed read_path call the return value is 1 exactly
\* when path_errno is 0 and exactly when the path pointer is the freshly
\* allocated block; a failing call leaves no allocation alive and path_errno
\* in {1, 2}; a stale path_errno never survives into a successful call.
C10_ReturnMatchesErrno ==
    (pc = "rp_done")
        => /\ ret \in {0, 1}
           /\ (ret = 1) <=> (path_errno = 0)
           /\ (ret = 1) <=> (path_p = 1 /\ heap_live)
           /\ (ret = 0) => (path_p = 0 /\ ~heap_live /\ path_errno \in {1, 2})

C10_Witness ==
    /\ pc = "rp_done"
    /\ ret = 1
    /\ prev_errno # 0
    /\ path_errno = 0

====
